---- MODULE Spec2Model ----
(***************************************************************************)
(* Model of componentor/breakpoint: the declaration parser `parse`, the    *)
(* resolution engine `getStyle` and its wrapper `getThemedStyle` of        *)
(* dist/index.js, the alias table of dist/aliases.js, and `mergeAdapt` of  *)
(* src/aliases.ts.                                                         *)
(*                                                                         *)
(* A style string is modelled after its two splits: a sequence of          *)
(* segments (input.split(';'), trimmed), each a sequence of tokens         *)
(* (segment.split(':'), trimmed).  A JavaScript `undefined` is the value   *)
(* Undefined.                                                              *)
(***************************************************************************)
EXTENDS Integers, Sequences, FiniteSets, TLC

VARIABLES
    inputType,      \* `typeof input` of the argument of the last parse call
    input,          \* the argument of the last parse call, when a string
    parsedStyles,   \* parse's result: the `styles` array
    options,        \* the argument of the last getStyle call
    matchingStyles, \* getStyle's local list of matched {property, value}
    cssEntries,     \* getStyle's return value
    themedOptions,  \* the `options` argument of a getThemedStyle call
    preferDark,     \* the `preferDark` argument of a getThemedStyle call
    api,            \* the function the caller resolved with
    pc,             \* "start" | "parsed" | "resolved"
    customAliases,  \* aliases.js: the module variable customAliases
    defaultAliases, \* aliases.js: the object DEFAULT_ALIASES
    aliasCalls,     \* the registration and clear calls made so far
    resolution,     \* the last resolveProperty call: its argument and result
    adapts,         \* the arguments of the last mergeAdapt call
    merged          \* mergeAdapt's return value

styleVars == <<inputType, input, parsedStyles, options, matchingStyles, cssEntries,
               themedOptions, preferDark, api, pc>>

aliasVars == <<customAliases, defaultAliases, aliasCalls, resolution>>

mergeVars == <<adapts, merged>>

vars == <<styleVars, aliasVars, mergeVars>>

Undefined == "undefined"

----------------------------------------------------------------------------
(* Constant tables of dist/index.js *)

KNOWN_BREAKPOINTS == {"xs", "sm", "md", "lg", "xl", "2xl"}

BREAKPOINT_ORDER ==
    [xs |-> 0, sm |-> 1, md |-> 2, lg |-> 3, xl |-> 4] @@ ("2xl" :> 5)

KNOWN_STATES ==
    {"hover", "active", "focus", "visited", "focus-visible", "focus-within",
     "disabled", "enabled", "checked"}

KNOWN_THEMES == {"dark", "light"}

KNOWN_CSS_PROPERTIES ==
    {"margin", "margin-top", "margin-right", "margin-bottom", "margin-left",
     "padding", "padding-top", "padding-right", "padding-bottom", "padding-left",
     "border", "border-top", "border-right", "border-bottom", "border-left",
     "border-width", "border-style", "border-color", "border-radius",
     "width", "height", "min-width", "min-height", "max-width", "max-height",
     "display", "position", "top", "right", "bottom", "left",
     "flex", "flex-direction", "flex-wrap", "flex-grow", "flex-shrink", "flex-basis",
     "justify-content", "align-items", "align-content", "align-self",
     "grid", "grid-template", "grid-template-columns", "grid-template-rows",
     "grid-gap", "gap",
     "color", "background", "background-color", "background-image",
     "background-size", "background-position",
     "font", "font-family", "font-size", "font-weight", "font-style",
     "text", "text-align", "text-decoration", "text-transform",
     "line-height", "letter-spacing", "word-spacing",
     "opacity", "visibility", "z-index",
     "cursor", "pointer-events",
     "overflow", "overflow-x", "overflow-y",
     "transform", "transition", "animation",
     "box-shadow", "text-shadow"}

----------------------------------------------------------------------------
(* parse *)

\* parts.slice(i, j).join('-') with 0-based i, exclusive j
RECURSIVE JoinHyphen(_, _, _)
JoinHyphen(parts, i, j) ==
    IF i >= j THEN ""
    ELSE IF i + 1 = j THEN parts[i + 1]
    ELSE parts[i + 1] \o "-" \o JoinHyphen(parts, i + 1, j)

\* The tokens of the model's vocabulary that the pattern /^\d+xl$|^[xsml]+$/
\* accepts (TLC strings are atomic, so the pattern is tabulated).
BreakpointPattern == {"3xl", "4xl", "xxl", "xs", "sm", "xl", "2xl", "s", "m", "l"}

MatchesBreakpointPattern(condition) == condition \in BreakpointPattern

\* Variant: the pattern test is missing, an unknown token is a theme
Category_NoPattern(condition) ==
    IF condition \in KNOWN_BREAKPOINTS THEN "breakpoint"
    ELSE IF condition \in KNOWN_STATES THEN "state"
    ELSE IF condition \in KNOWN_THEMES THEN "theme"
    ELSE "theme"

\* The if-chain that categorizes one condition token
Category(condition) ==
    IF condition \in KNOWN_BREAKPOINTS THEN "breakpoint"
    ELSE IF condition \in KNOWN_STATES THEN "state"
    ELSE IF condition \in KNOWN_THEMES THEN "theme"
    ELSE IF MatchesBreakpointPattern(condition) THEN "breakpoint"
    ELSE "theme"

\* Variant: the loop stops after the first condition
Categorize_FirstOnly(conditionParts, conditions) ==
    IF conditionParts = <<>> THEN conditions
    ELSE [conditions EXCEPT ![Category(Head(conditionParts))] = Head(conditionParts)]

\* The loop over conditionParts: each token overwrites the slot of its category.
RECURSIVE Categorize(_, _)
Categorize(conditionParts, conditions) ==
    IF conditionParts = <<>> THEN conditions
    ELSE
        LET condition == Head(conditionParts)
            slot == Category(condition)
        IN Categorize(Tail(conditionParts), [conditions EXCEPT ![slot] = condition])

NoConditions == [theme |-> Undefined, breakpoint |-> Undefined, state |-> Undefined]

\* Variant: only the run of the two tokens before the value is tried
MultiPartStart_TwoTokens(parts, i) ==
    IF i >= 0 /\ JoinHyphen(parts, i, Len(parts) - 1) \in KNOWN_CSS_PROPERTIES THEN i
    ELSE -1

\* The multi-part property search: the loop runs i from parts.length - 3 down
\* to 0 and stops at the first i whose hyphen-join up to the second-to-last
\* token is a known property; -1 when there is none.
RECURSIVE MultiPartStart(_, _)
MultiPartStart(parts, i) ==
    IF i < 0 THEN -1
    ELSE IF JoinHyphen(parts, i, Len(parts) - 1) \in KNOWN_CSS_PROPERTIES THEN i
    ELSE MultiPartStart(parts, i - 1)

\* Variant: the multi-part search runs before the test of the second-to-last
\* token
ParseDeclaration_MultiPartFirst(parts) ==
    LET n == Len(parts) IN
    IF n < 2 THEN <<>>
    ELSE
        LET i == IF n >= 3 THEN MultiPartStart(parts, n - 3) ELSE -1
            property == IF i = -1 THEN parts[n - 1]
                        ELSE JoinHyphen(parts, i, n - 1)
            value == parts[n]
            conditionParts == IF i = -1 THEN SubSeq(parts, 1, n - 2)
                              ELSE SubSeq(parts, 1, i)
        IN IF property = "" \/ value = "" THEN <<>>
           ELSE <<[property |-> property, value |-> value,
                   conditions |-> Categorize(conditionParts, NoConditions)]>>

\* Variant: a declaration with an empty property or value is kept
ParseDeclaration_KeepsEmpty(parts) ==
    LET n == Len(parts) IN
    IF n < 2 THEN <<>>
    ELSE
        LET direct == parts[n - 1] \in KNOWN_CSS_PROPERTIES
            i == IF ~direct /\ n >= 3 THEN MultiPartStart(parts, n - 3) ELSE -1
            property == IF direct \/ i = -1 THEN parts[n - 1]
                        ELSE JoinHyphen(parts, i, n - 1)
            value == parts[n]
            conditionParts == IF direct \/ i = -1 THEN SubSeq(parts, 1, n - 2)
                              ELSE SubSeq(parts, 1, i)
        IN <<[property |-> property, value |-> value,
              conditions |-> Categorize(conditionParts, NoConditions)]>>

\* One declaration: <<>> when the segment is skipped, else <<style>>.
ParseDeclaration(parts) ==
    LET n == Len(parts) IN
    IF n < 2 THEN <<>>
    ELSE
        LET direct == parts[n - 1] \in KNOWN_CSS_PROPERTIES
            i == IF ~direct /\ n >= 3 THEN MultiPartStart(parts, n - 3) ELSE -1
            property == IF direct \/ i = -1 THEN parts[n - 1]
                        ELSE JoinHyphen(parts, i, n - 1)
            value == parts[n]
            conditionParts == IF direct \/ i = -1 THEN SubSeq(parts, 1, n - 2)
                              ELSE SubSeq(parts, 1, i)
        IN IF property = "" \/ value = "" THEN <<>>
           ELSE <<[property |-> property, value |-> value,
                   conditions |-> Categorize(conditionParts, NoConditions)]>>

RECURSIVE ParseSegments(_)
ParseSegments(declarations) ==
    IF declarations = <<>> THEN <<>>
    ELSE ParseDeclaration(Head(declarations)) \o ParseSegments(Tail(declarations))

\* Segments that are empty after trimming are filtered out before the loop.
parse(in) == ParseSegments(SelectSeq(in, LAMBDA s : s # <<"">>))

\* if (!input || typeof input !== 'string') return { styles: [] }
parseAny(type, in) == IF type # "string" THEN <<>> ELSE parse(in)

----------------------------------------------------------------------------
(* getStyle *)

\* const { theme, state, breakpoint, breakpointStrategy = 'exact',
\*         themeStrategy = 'strict' } = options
BreakpointStrategyOf(opts) ==
    IF opts.breakpointStrategy = Undefined THEN "exact" ELSE opts.breakpointStrategy

\* Variant: the default of themeStrategy is 'fallback'
ThemeStrategyOf_DefaultFallback(opts) ==
    IF opts.themeStrategy = Undefined THEN "fallback" ELSE opts.themeStrategy

ThemeStrategyOf(opts) ==
    IF opts.themeStrategy = Undefined THEN "strict" ELSE opts.themeStrategy

\* BREAKPOINT_ORDER is an object literal: besides its six own keys, a lookup
\* finds the members it inherits from Object.prototype, whose values are
\* functions or objects, not numbers.
ObjectPrototypeKeys ==
    {"constructor", "toString", "toLocaleString", "valueOf", "hasOwnProperty",
     "isPrototypeOf", "propertyIsEnumerable", "__proto__"}

\* BREAKPOINT_ORDER[b] !== undefined
OrderDefined(b) == b \in DOMAIN BREAKPOINT_ORDER \cup ObjectPrototypeKeys

\* BREAKPOINT_ORDER[a] > BREAKPOINT_ORDER[b]: a comparison with a value that
\* is not a number is false
IndexGreater(a, b) ==
    /\ a \in DOMAIN BREAKPOINT_ORDER
    /\ b \in DOMAIN BREAKPOINT_ORDER
    /\ BREAKPOINT_ORDER[a] > BREAKPOINT_ORDER[b]

\* currentBreakpointIndex !== -1
HasCurrentIndex(opts) ==
    opts.breakpoint # Undefined /\ opts.breakpoint # "" /\ OrderDefined(opts.breakpoint)

\* Variant: the property of the other style is not compared
hasExactThemeMatch_AnyProperty(styles, style, opts) ==
    \E k \in DOMAIN styles :
        /\ styles[k].conditions.theme = opts.theme
        /\ styles[k].conditions.breakpoint = style.conditions.breakpoint
        /\ styles[k].conditions.state = style.conditions.state

hasExactThemeMatch(styles, style, opts) ==
    \E k \in DOMAIN styles :
        /\ styles[k].property = style.property
        /\ styles[k].conditions.theme = opts.theme
        /\ styles[k].conditions.breakpoint = style.conditions.breakpoint
        /\ styles[k].conditions.state = style.conditions.state

hasBaseAtSameLevel(styles, style) ==
    \E k \in DOMAIN styles :
        /\ styles[k].property = style.property
        /\ styles[k].conditions.theme = Undefined
        /\ styles[k].conditions.breakpoint = style.conditions.breakpoint
        /\ styles[k].conditions.state = style.conditions.state

hasAnyBase(styles, style) ==
    \E k \in DOMAIN styles :
        /\ styles[k].property = style.property
        /\ styles[k].conditions.theme = Undefined
        /\ styles[k].conditions.state = style.conditions.state

\* Variant: the branch for "state requested, style has none" is missing
skipFallback_NoStateBranch(styles, style, opts) ==
    IF hasExactThemeMatch(styles, style, opts) THEN TRUE
    ELSE IF opts.breakpoint # Undefined /\ style.conditions.breakpoint = Undefined
        THEN hasAnyBase(styles, style)
    ELSE FALSE

\* The skipFallback flag computed for a style whose theme differs from the
\* requested one.
skipFallback(styles, style, opts) ==
    IF hasExactThemeMatch(styles, style, opts) THEN TRUE
    ELSE IF opts.state # Undefined /\ style.conditions.state = Undefined
        THEN hasBaseAtSameLevel(styles, style)
    ELSE IF opts.breakpoint # Undefined /\ style.conditions.breakpoint = Undefined
        THEN hasAnyBase(styles, style)
    ELSE FALSE

\* Variant: the branch for "no theme requested" under fallback is missing
ThemeMatches_NoThemeBranchMissing(styles, style, opts) ==
    IF style.conditions.theme = Undefined THEN TRUE
    ELSE IF ThemeStrategyOf(opts) = "strict"
        THEN style.conditions.theme = opts.theme
    ELSE IF ThemeStrategyOf(opts) = "fallback"
        THEN IF opts.theme # Undefined /\ style.conditions.theme # opts.theme
                 THEN ~skipFallback(styles, style, opts)
             ELSE TRUE
    ELSE TRUE

\* Variant: under fallback the preference tests are applied to a declaration
\* of the requested theme as well
ThemeMatches_FallbackTestsEveryTheme(styles, style, opts) ==
    IF style.conditions.theme = Undefined THEN TRUE
    ELSE IF ThemeStrategyOf(opts) = "strict"
        THEN style.conditions.theme = opts.theme
    ELSE IF ThemeStrategyOf(opts) = "fallback"
        THEN IF opts.theme # Undefined
                 THEN ~skipFallback(styles, style, opts)
             ELSE FALSE
    ELSE TRUE

\* The theme block leaves `matches` true
ThemeMatches(styles, style, opts) ==
    IF style.conditions.theme = Undefined THEN TRUE
    ELSE IF ThemeStrategyOf(opts) = "strict"
        THEN style.conditions.theme = opts.theme
    ELSE IF ThemeStrategyOf(opts) = "fallback"
        THEN IF opts.theme # Undefined /\ style.conditions.theme # opts.theme
                 THEN ~skipFallback(styles, style, opts)
             ELSE IF opts.theme = Undefined THEN FALSE
             ELSE TRUE
    ELSE TRUE

\* The state block leaves `matches` true
StateMatches(style, opts) ==
    ~(style.conditions.state # Undefined /\ style.conditions.state # opts.state)

\* Variant: mobile-first compares with >= (the current breakpoint is excluded)
BreakpointMatches_OffByOne(style, opts) ==
    LET b == style.conditions.breakpoint
        strategy == BreakpointStrategyOf(opts)
    IN
    IF b # Undefined /\ opts.breakpoint # Undefined THEN
        IF OrderDefined(b) /\ HasCurrentIndex(opts) THEN
            IF strategy = "exact" THEN b = opts.breakpoint
            ELSE IF strategy = "mobile-first"
                THEN ~(IndexGreater(b, opts.breakpoint) \/ b = opts.breakpoint)
            ELSE IF strategy = "desktop-first"
                THEN ~IndexGreater(opts.breakpoint, b)
            ELSE TRUE
        ELSE b = opts.breakpoint
    ELSE IF b # Undefined /\ opts.breakpoint = Undefined THEN FALSE
    ELSE TRUE

\* Variant: the branch for "style has a breakpoint, none requested" is missing
BreakpointMatches_NoRequestBranchMissing(style, opts) ==
    LET b == style.conditions.breakpoint
        strategy == BreakpointStrategyOf(opts)
    IN
    IF b # Undefined /\ opts.breakpoint # Undefined THEN
        IF OrderDefined(b) /\ HasCurrentIndex(opts) THEN
            IF strategy = "exact" THEN b = opts.breakpoint
            ELSE IF strategy = "mobile-first"
                THEN ~IndexGreater(b, opts.breakpoint)
            ELSE IF strategy = "desktop-first"
                THEN ~IndexGreater(opts.breakpoint, b)
            ELSE TRUE
        ELSE b = opts.breakpoint
    ELSE TRUE

\* Variant: mobile-first does not compare the ordinals
BreakpointMatches_MobileFirstAll(style, opts) ==
    LET b == style.conditions.breakpoint
        strategy == BreakpointStrategyOf(opts)
    IN
    IF b # Undefined /\ opts.breakpoint # Undefined THEN
        IF OrderDefined(b) /\ HasCurrentIndex(opts) THEN
            IF strategy = "exact" THEN b = opts.breakpoint
            ELSE IF strategy = "mobile-first" THEN TRUE
            ELSE IF strategy = "desktop-first"
                THEN ~IndexGreater(opts.breakpoint, b)
            ELSE TRUE
        ELSE b = opts.breakpoint
    ELSE IF b # Undefined /\ opts.breakpoint = Undefined THEN FALSE
    ELSE TRUE

\* The breakpoint block leaves `matches` true
BreakpointMatches(style, opts) ==
    LET b == style.conditions.breakpoint
        strategy == BreakpointStrategyOf(opts)
    IN
    IF b # Undefined /\ opts.breakpoint # Undefined THEN
        IF OrderDefined(b) /\ HasCurrentIndex(opts) THEN
            \* both lookups are defined: the strategy is applied
            IF strategy = "exact" THEN b = opts.breakpoint
            ELSE IF strategy = "mobile-first"
                THEN ~IndexGreater(b, opts.breakpoint)
            ELSE IF strategy = "desktop-first"
                THEN ~IndexGreater(opts.breakpoint, b)
            ELSE TRUE
        ELSE b = opts.breakpoint
    ELSE IF b # Undefined /\ opts.breakpoint = Undefined THEN FALSE
    ELSE TRUE

hasConditions(style) ==
    \/ style.conditions.theme # Undefined
    \/ style.conditions.state # Undefined
    \/ style.conditions.breakpoint # Undefined

\* Variant: a base style is included only when no breakpoint is requested
Matches_BaseWithoutBreakpointOnly(styles, style, opts) ==
    IF ~hasConditions(style) THEN opts.breakpoint = Undefined
    ELSE /\ ThemeMatches(styles, style, opts)
         /\ StateMatches(style, opts)
         /\ BreakpointMatches(style, opts)

\* The value of `matches` at the end of one iteration of the loop
Matches(styles, style, opts) ==
    IF ~hasConditions(style) THEN TRUE
    ELSE /\ ThemeMatches(styles, style, opts)
         /\ StateMatches(style, opts)
         /\ BreakpointMatches(style, opts)

\* The loop: the matched styles, in order, as {property, value}
RECURSIVE MatchingFrom(_, _, _)
MatchingFrom(styles, k, opts) ==
    IF k > Len(styles) THEN <<>>
    ELSE (IF Matches(styles, styles[k], opts)
             THEN <<[property |-> styles[k].property, value |-> styles[k].value]>>
             ELSE <<>>)
         \o MatchingFrom(styles, k + 1, opts)

\* Variant: a key already present keeps its first value
MapSet_KeepFirst(map, property, value) ==
    IF \E k \in DOMAIN map : map[k][1] = property
        THEN map
        ELSE Append(map, <<property, value>>)

\* Variant: a key already present is moved to the end with the new value
MapSet_MoveToEnd(map, property, value) ==
    Append(SelectSeq(map, LAMBDA e : e[1] # property), <<property, value>>)

\* Map.set: a key already present keeps its position and takes the new value
MapSet(map, property, value) ==
    IF \E k \in DOMAIN map : map[k][1] = property
        THEN [k \in DOMAIN map |->
                 IF map[k][1] = property THEN <<property, value>> ELSE map[k]]
        ELSE Append(map, <<property, value>>)

RECURSIVE PropertyMap(_, _)
PropertyMap(matching, map) ==
    IF matching = <<>> THEN map
    ELSE PropertyMap(Tail(matching),
                     MapSet(map, Head(matching).property, Head(matching).value))

\* Variant: the join leaves the last entry out
RECURSIVE JoinEntries_DropsLast(_)
JoinEntries_DropsLast(map) ==
    IF Len(map) <= 1 THEN ""
    ELSE LET entry == map[1][1] \o ": " \o map[1][2] \o ";"
         IN IF Len(map) = 2 THEN entry
            ELSE entry \o " " \o JoinEntries_DropsLast(Tail(map))

\* entries.map(([property, value]) => `${property}: ${value};`).join(' ')
RECURSIVE JoinEntries(_)
JoinEntries(map) ==
    IF map = <<>> THEN ""
    ELSE LET entry == map[1][1] \o ": " \o map[1][2] \o ";"
         IN IF Len(map) = 1 THEN entry
            ELSE entry \o " " \o JoinEntries(Tail(map))

getStyle(styles, opts) == JoinEntries(PropertyMap(MatchingFrom(styles, 1, opts), <<>>))

----------------------------------------------------------------------------
(* getThemedStyle *)

\* Variant: preferDark decides the theme even when options.theme is given
ThemedTheme_PreferDarkFirst(opts, dark) ==
    IF dark THEN "dark"
    ELSE IF opts.theme # Undefined /\ opts.theme # "" THEN opts.theme
    ELSE "light"

\* options.theme || (preferDark ? 'dark' : 'light'): an undefined or empty
\* theme is falsy
ThemedTheme(opts, dark) ==
    IF opts.theme # Undefined /\ opts.theme # "" THEN opts.theme
    ELSE IF dark THEN "dark" ELSE "light"

\* { ...options, theme, themeStrategy: 'fallback' }
ForwardedOptions(opts, dark) ==
    [opts EXCEPT !.theme = ThemedTheme(opts, dark), !.themeStrategy = "fallback"]

getThemedStyle(styles, opts, dark) == getStyle(styles, ForwardedOptions(opts, dark))

----------------------------------------------------------------------------
(* aliases.js *)

\* The camelCase and PascalCase tokens of the model's vocabulary with their
\* conversion (a '-' before each capital, lower case, no leading '-'); every
\* other token of the vocabulary is lower case and returned as it is.
CamelCase ==
    ("fontSize" :> "font-size") @@ ("BackgroundColor" :> "background-color")
    @@ ("toString" :> "to-string") @@ ("valueOf" :> "value-of")

toKebabCase(str) == IF str \in DOMAIN CamelCase THEN CamelCase[str] ELSE str

DefaultAliasPairs ==
    {<<"bg", "background">>, <<"bg-color", "background-color">>,
     <<"bg-image", "background-image">>, <<"bg-size", "background-size">>,
     <<"bg-position", "background-position">>,
     <<"bg-repeat", "background-repeat">>,
     <<"bg-attachment", "background-attachment">>,
     <<"bg-clip", "background-clip">>, <<"bg-origin", "background-origin">>,
     <<"text", "color">>, <<"op", "opacity">>, <<"w", "width">>,
     <<"h", "height">>, <<"min-w", "min-width">>, <<"max-w", "max-width">>,
     <<"min-h", "min-height">>, <<"max-h", "max-height">>, <<"m", "margin">>,
     <<"mt", "margin-top">>, <<"mr", "margin-right">>,
     <<"mb", "margin-bottom">>, <<"ml", "margin-left">>,
     <<"mx", "margin-inline">>, <<"my", "margin-block">>,
     <<"ms", "margin-inline-start">>, <<"me", "margin-inline-end">>,
     <<"p", "padding">>, <<"pt", "padding-top">>, <<"pr", "padding-right">>,
     <<"pb", "padding-bottom">>, <<"pl", "padding-left">>,
     <<"px", "padding-inline">>, <<"py", "padding-block">>,
     <<"ps", "padding-inline-start">>, <<"pe", "padding-inline-end">>,
     <<"space-x", "column-gap">>, <<"space-y", "row-gap">>,
     <<"border-w", "border-width">>, <<"border-t", "border-top">>,
     <<"border-r", "border-right">>, <<"border-b", "border-bottom">>,
     <<"border-l", "border-left">>, <<"border-t-color", "border-top-color">>,
     <<"border-b-color", "border-bottom-color">>,
     <<"border-l-color", "border-left-color">>,
     <<"border-r-color", "border-right-color">>,
     <<"border-t-style", "border-top-style">>,
     <<"border-b-style", "border-bottom-style">>,
     <<"border-l-style", "border-left-style">>,
     <<"border-r-style", "border-right-style">>,
     <<"border-t-w", "border-top-width">>,
     <<"border-b-w", "border-bottom-width">>,
     <<"border-l-w", "border-left-width">>,
     <<"border-r-w", "border-right-width">>, <<"rounded", "border-radius">>,
     <<"rounded-tl", "border-top-left-radius">>,
     <<"rounded-tr", "border-top-right-radius">>,
     <<"rounded-bl", "border-bottom-left-radius">>,
     <<"rounded-br", "border-bottom-right-radius">>, <<"z", "z-index">>,
     <<"justify", "justify-content">>, <<"items", "align-items">>,
     <<"align", "align-self">>, <<"grow", "flex-grow">>,
     <<"shrink", "flex-shrink">>, <<"basis", "flex-basis">>,
     <<"grid-cols", "grid-template-columns">>,
     <<"grid-rows", "grid-template-rows">>, <<"col", "grid-column">>,
     <<"col-start", "grid-column-start">>, <<"col-end", "grid-column-end">>,
     <<"row", "grid-row">>, <<"row-start", "grid-row-start">>,
     <<"row-end", "grid-row-end">>, <<"gap-x", "column-gap">>,
     <<"gap-y", "row-gap">>, <<"shadow", "box-shadow">>,
     <<"mix-blend", "mix-blend-mode">>,
     <<"bg-blend", "background-blend-mode">>,
     <<"origin", "transform-origin">>, <<"duration", "transition-duration">>,
     <<"delay", "transition-delay">>, <<"animate", "animation">>,
     <<"overscroll", "overscroll-behavior">>,
     <<"overscroll-x", "overscroll-behavior-x">>,
     <<"overscroll-y", "overscroll-behavior-y">>,
     <<"outline-w", "outline-width">>, <<"aspect", "aspect-ratio">>,
     <<"object", "object-fit">>, <<"list", "list-style-type">>,
     <<"break", "word-break">>, <<"break-words", "overflow-wrap">>,
     <<"whitespace", "white-space">>, <<"stroke-w", "stroke-width">>,
     <<"size", "font-size">>, <<"fw", "font-weight">>}

DEFAULT_ALIASES ==
    [alias \in {pair[1] : pair \in DefaultAliasPairs} |->
        (CHOOSE pair \in DefaultAliasPairs : pair[1] = alias)[2]]

\* The value a member inherited from Object.prototype has (a function or an
\* object, not a string)
InheritedMember(key) == "Object.prototype." \o key

\* object[key] on an object literal
Lookup(object, key) ==
    IF key \in DOMAIN object THEN object[key]
    ELSE IF key \in ObjectPrototypeKeys THEN InheritedMember(key)
    ELSE Undefined

\* if (value)
Truthy(value) == value # Undefined /\ value # ""

\* Object.assign(target, source), target[key] = value
Assign(target, source) ==
    [key \in DOMAIN source \cup DOMAIN target |->
        IF key \in DOMAIN source THEN source[key] ELSE target[key]]

NoAliases == [key \in {} |-> ""]

\* Variant: the alias is written to the built-in table
registerAlias_IntoDefaults(tables, alias, property) ==
    [custom |-> tables.custom, builtIn |-> Assign(tables.builtIn, alias :> property)]

\* customAliases[alias] = property
registerAlias(tables, alias, property) ==
    [custom |-> Assign(tables.custom, alias :> property), builtIn |-> tables.builtIn]

\* Object.assign(customAliases, aliases)
registerAliases(tables, aliases) ==
    [custom |-> Assign(tables.custom, aliases), builtIn |-> tables.builtIn]

\* customAliases = {}
clearCustomAliases(tables) == [custom |-> NoAliases, builtIn |-> tables.builtIn]

resolveProperty(tables, property) ==
    IF Truthy(Lookup(tables.custom, property)) THEN Lookup(tables.custom, property)
    ELSE IF Truthy(Lookup(tables.builtIn, property)) THEN Lookup(tables.builtIn, property)
    ELSE toKebabCase(property)


----------------------------------------------------------------------------
(* src/aliases.ts: normalizeAdapt and mergeAdapt.  A string is the sequence *)
(* of its tokens: a word, or one of the characters the code looks for      *)
(* (':' and ';') or trims (' ').  Indices count from 1, and 0 stands for   *)
(* the -1 of lastIndexOf.                                                  *)

Colon == ":"

Semicolon == ";"

Space == " "

RECURSIVE split(_, _)
\* String.prototype.split(separator): the pieces between the separators
split(text, separator) ==
    IF \A k \in DOMAIN text : text[k] # separator THEN <<text>>
    ELSE LET at == CHOOSE k \in DOMAIN text :
                       /\ text[k] = separator
                       /\ \A j \in 1..(k - 1) : text[j] # separator
         IN  <<SubSeq(text, 1, at - 1)>>
                 \o split(SubSeq(text, at + 1, Len(text)), separator)

RECURSIVE trim(_)
\* String.prototype.trim
trim(text) ==
    IF text = <<>> THEN <<>>
    ELSE IF Head(text) = Space THEN trim(Tail(text))
    ELSE IF text[Len(text)] = Space THEN trim(SubSeq(text, 1, Len(text) - 1))
    ELSE text

\* Variant: the position of the first occurrence
lastIndexOf_First(text, token) ==
    IF \A k \in DOMAIN text : text[k] # token THEN 0
    ELSE CHOOSE k \in DOMAIN text :
             text[k] = token /\ \A j \in 1..(k - 1) : text[j] # token

\* String.prototype.lastIndexOf
lastIndexOf(text, token) ==
    IF \A k \in DOMAIN text : text[k] # token THEN 0
    ELSE CHOOSE k \in DOMAIN text :
             text[k] = token /\ \A j \in (k + 1)..Len(text) : text[j] # token

RECURSIVE join(_, _)
\* Array.prototype.join
join(pieces, separator) ==
    IF pieces = <<>> THEN <<>>
    ELSE IF Len(pieces) = 1 THEN pieces[1]
    ELSE pieces[1] \o separator \o join(Tail(pieces), separator)

\* `${key}:${value}`
KeyValue(entry) == entry[1] \o <<Colon>> \o entry[2]

\* Object.entries(item).map(([key, value]) => `${key}:${value}`).join('; ')
EntriesText(entries) ==
    join([k \in DOMAIN entries |-> KeyValue(entries[k])], <<Semicolon, Space>>)

normalizeAdapt(adapt) ==
    IF adapt.type = "null" THEN <<>>
    ELSE IF adapt.type = "string" THEN adapt.text
    ELSE IF adapt.type = "array"
        THEN join([k \in DOMAIN adapt.items |->
                      IF adapt.items[k].type = "string" THEN adapt.items[k].text
                      ELSE EntriesText(adapt.items[k].entries)],
                  <<Semicolon, Space>>)
    ELSE EntriesText(adapt.entries)

\* Variant: a key the object has keeps its value
StyleMapSet_KeepsValue(styleMap, key, value) ==
    IF key = <<"__proto__">> THEN styleMap
    ELSE IF \E k \in DOMAIN styleMap : styleMap[k][1] = key THEN styleMap
    ELSE Append(styleMap, <<key, value>>)

\* styleMap[key] = value on an object literal: a key the object has keeps
\* its place, and a string assigned to '__proto__' adds no entry
StyleMapSet(styleMap, key, value) ==
    IF key = <<"__proto__">> THEN styleMap
    ELSE IF \E k \in DOMAIN styleMap : styleMap[k][1] = key
        THEN [k \in DOMAIN styleMap |->
                 IF styleMap[k][1] = key THEN <<key, value>> ELSE styleMap[k]]
    ELSE Append(styleMap, <<key, value>>)

\* The body of the forEach for one piece of the split
StoreProp(styleMap, prop) ==
    LET trimmed == trim(prop)
        lastColonIndex == lastIndexOf(trimmed, Colon)
        key == trim(SubSeq(trimmed, 1, lastColonIndex - 1))
        value == trim(SubSeq(trimmed, lastColonIndex + 1, Len(trimmed)))
    IN  IF trimmed # <<>> /\ lastColonIndex > 0 /\ key # <<>>
            THEN StyleMapSet(styleMap, key, value)
            ELSE styleMap

RECURSIVE StoreProps(_, _)
\* normalized.split(';').forEach(...)
StoreProps(styleMap, props) ==
    IF props = <<>> THEN styleMap
    ELSE StoreProps(StoreProp(styleMap, Head(props)), Tail(props))

\* One turn of the loop over the arguments
StoreAdapt(styleMap, adapt) ==
    LET normalized == normalizeAdapt(adapt)
    IN  IF normalized = <<>> THEN styleMap
        ELSE StoreProps(styleMap, split(normalized, Semicolon))

RECURSIVE StyleMapFrom(_, _, _)
\* for (let i = adapts.length - 1; i >= 0; i--)
StyleMapFrom(list, i, styleMap) ==
    IF i < 1 THEN styleMap
    ELSE StyleMapFrom(list, i - 1, StoreAdapt(styleMap, list[i]))

\* Variant: the entries are joined as normalizeAdapt joins them
SerializeStyleMap_Spaced(styleMap) ==
    join([k \in DOMAIN styleMap |-> KeyValue(styleMap[k])], <<Semicolon, Space>>)

\* Object.entries(styleMap).map(([key, value]) => `${key}:${value}`).join(';')
SerializeStyleMap(styleMap) ==
    join([k \in DOMAIN styleMap |-> KeyValue(styleMap[k])], <<Semicolon>>)

mergeAdapt(list) ==
    IF Len(list) = 0 THEN <<>>
    ELSE IF Len(list) = 1 THEN normalizeAdapt(list[1])
    ELSE SerializeStyleMap(StyleMapFrom(list, Len(list), <<>>))

----------------------------------------------------------------------------------------------------------------------------------------
(* Inputs of the calls *)

MaxStyles == 2

\* Longer style strings, for the order of the entries
MaxDeclarations == 3

Values == <<"blue", "white", "red", "green">>

\* Style strings of at most MaxStyles declarations over the given condition
\* prefixes and property tokens; the k-th declaration's value is the k-th
\* colour of Values, so that a value names its declaration.
InputsUpTo(max, conditionLists, properties) ==
    UNION {{[k \in 1..n |-> c[k] \o <<p[k], Values[k]>>] :
              c \in [1..n -> conditionLists], p \in [1..n -> properties]} :
           n \in 0..max}

InputsOver(conditionLists, properties) == InputsUpTo(MaxStyles, conditionLists, properties)

Prefixes(themes, breakpoints, states) ==
    {t \o b \o s : t \in themes, b \in breakpoints, s \in states}

\* Theme-centred inputs and contexts
Inputs ==
    InputsOver(Prefixes({<<>>, <<"dark">>, <<"light">>}, {<<>>, <<"md">>},
                        {<<>>, <<"hover">>}),
               {"color", "background"})

OptionsSet ==
    [theme : {Undefined, "dark", "light"},
     state : {Undefined, "hover", "active"},
     states : {<<>>},
     breakpoint : {Undefined, "md", "lg"},
     breakpointStrategy : {Undefined},
     themeStrategy : {Undefined, "strict", "fallback"}]

\* Breakpoint-centred inputs and contexts
BreakpointInputs ==
    InputsOver(Prefixes({<<>>, <<"dark">>}, {<<>>, <<"sm">>, <<"md">>, <<"3xl">>}, {<<>>}),
               {"color", "background"})

BreakpointOptions ==
    [theme : {Undefined, "dark", "light"},
     state : {Undefined, "hover"},
     states : {<<>>},
     breakpoint : {Undefined, "sm", "md", "lg", "3xl", "4xl", "constructor"},
     breakpointStrategy : {Undefined, "exact", "mobile-first", "desktop-first"},
     themeStrategy : {"strict", "fallback"}]

\* State-centred inputs and contexts; `states` is the option of the documented
\* interface, which getStyle does not read
StateInputs ==
    InputsOver(Prefixes({<<>>, <<"dark">>}, {<<>>},
                        {<<>>, <<"hover">>, <<"active">>, <<"hover", "active">>}),
               {"color", "bg"})

StateOptions ==
    [theme : {Undefined, "dark"},
     state : {Undefined, "hover", "active"},
     states : {<<>>, <<"hover">>, <<"hover", "active">>,
               <<"hover", "active", "focus">>},
     breakpoint : {Undefined},
     breakpointStrategy : {Undefined},
     themeStrategy : {Undefined, "fallback"}]

\* Inputs and contexts for the parser: segments of one to four tokens, with
\* empty tokens, single tokens, multi-part properties, and condition tokens
\* of every category
MaxSegments == 2

ConditionLists ==
    {<<>>}
    \cup {<<c>> : c \in {"hover", "active", "focus", "visited", "focus-visible",
                         "focus-within", "disabled", "enabled", "checked", "current",
                         "md", "2xl", "3xl", "xxl", "dark", "midnight", "tablet", ""}}
    \cup {<<"dark", "md">>, <<"md", "hover">>, <<"sm", "md">>, <<"md", "sm">>,
          <<"hover", "active">>, <<"dark", "md", "hover">>, <<"hover", "md", "dark">>}

Segments ==
    {c \o body : c \in ConditionLists, body \in {<<"color", "red">>, <<"bg", "blue">>}}
    \cup {<<"">>, <<"invalid">>, <<"color", "">>, <<"", "red">>,
          <<"font", "family", "Arial">>, <<"md", "font", "family", "Arial">>,
          <<"md", "font", "weight", "">>, <<"border", "color", "red">>,
          <<"hover", "bg", "color", "red">>, <<"text", "align", "last", "center">>,
          <<"dark", "size", "big">>,
          <<"grid", "template", "columns", "1fr">>,
          <<"md", "grid", "template", "columns", "1fr">>}

ParseInputs == UNION {[1..n -> Segments] : n \in 0..MaxSegments}

NonStringTypes == {"undefined", "object", "number", "boolean"}

ParseOptions ==
    [theme : {Undefined},
     state : {Undefined, "hover", "current"},
     states : {<<>>},
     breakpoint : {Undefined},
     breakpointStrategy : {Undefined},
     themeStrategy : {Undefined}]

\* Calls on the alias table: aliases that shadow a built-in one or are new,
\* and property tokens that are aliases, plain names, camelCase names or
\* names every object inherits
MaxAliasCalls == 3

AliasNames == {"bg", "custom"}

AliasProperties == {"background-color", "some-property"}

AliasMaps == {("bg" :> "color") @@ ("fs" :> "font-size")}

PropertyTokens == {"bg", "custom", "fs", "color", "fontSize", "constructor"}

AliasInputs ==
    {<<>>, << <<"bg", "red">> >>, << <<"custom", "red">> >>,
     << <<"dark", "fontSize", "red">>, <<"bg", "blue">> >>}

AliasOptions ==
    [theme : {Undefined, "dark"},
     state : {Undefined},
     states : {<<>>},
     breakpoint : {Undefined},
     breakpointStrategy : {Undefined},
     themeStrategy : {Undefined}]

\* Inputs and contexts for the serialization: three properties, overridden
\* or not by a later declaration
SerializationInputs ==
    InputsUpTo(MaxDeclarations, Prefixes({<<>>}, {<<>>}, {<<>>, <<"hover">>}),
               {"color", "background", "width"})

SerializationOptions ==
    [theme : {Undefined},
     state : {Undefined, "hover"},
     states : {<<>>},
     breakpoint : {Undefined},
     breakpointStrategy : {Undefined},
     themeStrategy : {Undefined}]

\* Inputs and contexts of the themed calls: custom themes, an empty theme
\* name, and the README's list of three themes after a base declaration
ExampleFallbackOrder ==
    << <<"color", "red">>, <<"dark", "color", "blue">>,
       <<"midnight", "color", "purple">>, <<"sunset", "color", "orange">> >>

ThemedInputs ==
    InputsOver(Prefixes({<<>>, <<"dark">>, <<"light">>, <<"midnight">>},
                        {<<>>, <<"md">>}, {<<>>}),
               {"color", "background"})
        \cup {ExampleFallbackOrder}

ThemedOptions ==
    [theme : {Undefined, "", "dark", "light", "midnight"},
     state : {Undefined},
     states : {<<>>},
     breakpoint : {Undefined, "md"},
     breakpointStrategy : {Undefined},
     themeStrategy : {Undefined, "strict", "fallback"}]


\* Arguments of mergeAdapt: strings with one entry or several, with and
\* without conditions in the key, with blanks, a trailing ';', an entry
\* without a key and one without a colon; an object, an array and null.
\* The keys are style keys (conditions and a property name).
MaxAdapts == 3

StringAdapt(text) == [type |-> "string", text |-> text]

ObjectAdapt(entries) == [type |-> "object", entries |-> entries]

AdaptInputs ==
    {StringAdapt(<<"bg", Colon, "red">>),
     StringAdapt(<<"bg", Colon, "blue">>),
     StringAdapt(<<"hover", Colon, "bg", Colon, "white">>),
     StringAdapt(<<"hover", Colon, "dark", Colon, "bg", Colon, "black">>),
     StringAdapt(<<"bg", Colon, "red", Semicolon, Space, "color", Colon, "white">>),
     StringAdapt(<<"bg", Colon, "green", Semicolon, "bg", Colon, "blue", Semicolon>>),
     StringAdapt(<<Colon, "red", Semicolon, "bg">>),
     ObjectAdapt(<< <<<<"bg">>, <<"black">>>>, <<<<"color">>, <<"red">>>> >>),
     [type |-> "array",
      items |-> <<StringAdapt(<<"color", Colon, Space, "blue">>),
                  ObjectAdapt(<< <<<<"hover", Colon, "bg">>, <<"red">>>> >>)>>],
     [type |-> "null"]}

RECURSIVE ListsUpTo(_, _)
ListsUpTo(n, elements) ==
    IF n = 0 THEN {<<>>}
    ELSE LET shorter == ListsUpTo(n - 1, elements)
         IN  shorter \cup {Append(list, e) : list \in shorter, e \in elements}

AdaptLists == ListsUpTo(MaxAdapts, AdaptInputs)

----------------------------------------------------------------------------
(* The calls.  A caller parses a style string and resolves the result       *)
(* against a context; getStyle reads nothing but its two arguments, so a    *)
(* second call on the same ParsedStyles adds no configuration to the        *)
(* parse-then-resolve run.                                                  *)

Init ==
    /\ inputType = "string"
    /\ input = <<>>
    /\ parsedStyles = <<>>
    /\ options = Undefined
    /\ matchingStyles = <<>>
    /\ cssEntries = Undefined
    /\ themedOptions = Undefined
    /\ preferDark = FALSE
    /\ api = Undefined
    /\ pc = "start"
    /\ customAliases = NoAliases
    /\ defaultAliases = DEFAULT_ALIASES
    /\ aliasCalls = <<>>
    /\ resolution = [property |-> Undefined, result |-> Undefined]
    /\ adapts = <<>>
    /\ merged = <<>>

\* A call parse(in) for some style string of `inputs`
Parse(inputs) ==
    /\ pc = "start"
    /\ \E in \in inputs :
           /\ input' = in
           /\ parsedStyles' = parseAny("string", in)
    /\ inputType' = "string"
    /\ pc' = "parsed"
    /\ UNCHANGED <<options, matchingStyles, cssEntries, themedOptions, preferDark, api>>
    /\ UNCHANGED <<aliasVars, mergeVars>>

\* A call parse(x) for an x that is not a string
ParseNonString(types) ==
    /\ pc = "start"
    /\ \E type \in types :
           /\ inputType' = type
           /\ parsedStyles' = parseAny(type, <<>>)
    /\ input' = <<>>
    /\ pc' = "parsed"
    /\ UNCHANGED <<options, matchingStyles, cssEntries, themedOptions, preferDark, api>>
    /\ UNCHANGED <<aliasVars, mergeVars>>

\* A call getStyle(parsedStyles, opts) for some context of `contexts`
GetStyle(contexts) ==
    /\ pc = "parsed"
    /\ \E opts \in contexts :
           /\ options' = opts
           /\ matchingStyles' = MatchingFrom(parsedStyles, 1, opts)
           /\ cssEntries' = getStyle(parsedStyles, opts)
    /\ api' = "getStyle"
    /\ pc' = "resolved"
    /\ UNCHANGED <<inputType, input, parsedStyles, themedOptions, preferDark>>
    /\ UNCHANGED <<aliasVars, mergeVars>>

\* A call getThemedStyle(parsedStyles, opts, dark), which calls getStyle with
\* the forwarded options
GetThemedStyle(contexts) ==
    /\ pc = "parsed"
    /\ \E opts \in contexts, dark \in BOOLEAN :
           /\ themedOptions' = opts
           /\ preferDark' = dark
           /\ options' = ForwardedOptions(opts, dark)
           /\ matchingStyles' = MatchingFrom(parsedStyles, 1, ForwardedOptions(opts, dark))
           /\ cssEntries' = getThemedStyle(parsedStyles, opts, dark)
    /\ api' = "getThemedStyle"
    /\ pc' = "resolved"
    /\ UNCHANGED <<inputType, input, parsedStyles>>
    /\ UNCHANGED <<aliasVars, mergeVars>>

Next ==
    \/ Parse(Inputs)
    \/ GetStyle(OptionsSet)

Spec == Init /\ [][Next]_vars

NextBreakpoints ==
    \/ Parse(BreakpointInputs)
    \/ GetStyle(BreakpointOptions)

SpecBreakpoints == Init /\ [][NextBreakpoints]_vars

NextStates ==
    \/ Parse(StateInputs)
    \/ GetStyle(StateOptions)

SpecStates == Init /\ [][NextStates]_vars

\* The two tables of aliases.js
AliasTables == [custom |-> customAliases, builtIn |-> defaultAliases]

\* A call registerAlias(alias, property)
RegisterAlias(names, properties) ==
    /\ Len(aliasCalls) < MaxAliasCalls
    /\ \E alias \in names, property \in properties :
           /\ customAliases' = registerAlias(AliasTables, alias, property).custom
           /\ defaultAliases' = registerAlias(AliasTables, alias, property).builtIn
           /\ aliasCalls' = Append(aliasCalls, [op |-> "registerAlias",
                                                aliases |-> alias :> property])
    /\ UNCHANGED <<resolution, styleVars, mergeVars>>

\* A call registerAliases(aliases)
RegisterAliases(maps) ==
    /\ Len(aliasCalls) < MaxAliasCalls
    /\ \E aliases \in maps :
           /\ customAliases' = registerAliases(AliasTables, aliases).custom
           /\ defaultAliases' = registerAliases(AliasTables, aliases).builtIn
           /\ aliasCalls' = Append(aliasCalls, [op |-> "registerAliases",
                                                aliases |-> aliases])
    /\ UNCHANGED <<resolution, styleVars, mergeVars>>

\* A call clearCustomAliases()
ClearCustomAliases ==
    /\ Len(aliasCalls) < MaxAliasCalls
    /\ customAliases' = clearCustomAliases(AliasTables).custom
    /\ defaultAliases' = clearCustomAliases(AliasTables).builtIn
    /\ aliasCalls' = Append(aliasCalls, [op |-> "clearCustomAliases",
                                         aliases |-> NoAliases])
    /\ UNCHANGED <<resolution, styleVars, mergeVars>>

\* A call resolveProperty(property)
ResolveProperty(properties) ==
    /\ \E property \in properties :
           resolution' = [property |-> property,
                          result |-> resolveProperty(AliasTables, property)]
    /\ UNCHANGED <<customAliases, defaultAliases, aliasCalls, styleVars, mergeVars>>

NextAliases ==
    \/ RegisterAlias(AliasNames, AliasProperties)
    \/ RegisterAliases(AliasMaps)
    \/ ClearCustomAliases
    \/ ResolveProperty(PropertyTokens)
    \/ Parse(AliasInputs)
    \/ GetStyle(AliasOptions)

SpecAliases == Init /\ [][NextAliases]_vars

NextParse ==
    \/ Parse(ParseInputs)
    \/ ParseNonString(NonStringTypes)
    \/ GetStyle(ParseOptions)

SpecParse == Init /\ [][NextParse]_vars

NextSerialization ==
    \/ Parse(SerializationInputs)
    \/ GetStyle(SerializationOptions)

SpecSerialization == Init /\ [][NextSerialization]_vars

NextThemed ==
    \/ Parse(ThemedInputs)
    \/ GetStyle(ThemedOptions)
    \/ GetThemedStyle(ThemedOptions)

SpecThemed == Init /\ [][NextThemed]_vars

\* A call mergeAdapt(...list) for some list of arguments.  mergeAdapt reads
\* nothing but its arguments, so one call from the initial state covers it.
MergeAdapt(lists) ==
    /\ adapts = <<>>
    /\ \E list \in lists :
        /\ adapts' = list
        /\ merged' = mergeAdapt(list)
        /\ UNCHANGED <<styleVars, aliasVars>>

NextMerge == MergeAdapt(AdaptLists)

SpecMerge == Init /\ [][NextMerge]_vars

----------------------------------------------------------------------------
(* Vocabulary of the properties *)

Resolved == pc = "resolved"

Indices == DOMAIN parsedStyles

PropertyOf(k) == parsedStyles[k].property
ValueOf(k) == parsedStyles[k].value
ThemeOf(k) == parsedStyles[k].conditions.theme
BreakpointOf(k) == parsedStyles[k].conditions.breakpoint
StateOf(k) == parsedStyles[k].conditions.state

\* Declaration k is in the matched list of the call (values name declarations)
IsMatched(k) ==
    \E j \in DOMAIN matchingStyles :
        matchingStyles[j] = [property |-> PropertyOf(k), value |-> ValueOf(k)]

\* Reading the returned string back: the sequences of declarations, pairwise
\* of different properties, whose entries "property: value;" joined by one
\* space give the string.
EntryText(k) == PropertyOf(k) \o ": " \o ValueOf(k) \o ";"

RECURSIVE RenderedFrom(_)
RenderedFrom(ks) ==
    IF ks = <<>> THEN ""
    ELSE IF Len(ks) = 1 THEN EntryText(ks[1])
    ELSE EntryText(ks[1]) \o " " \o RenderedFrom(Tail(ks))

IndexSeqs ==
    UNION {{ks \in [1..n -> Indices] :
               \A a, b \in 1..n : a # b => PropertyOf(ks[a]) # PropertyOf(ks[b])} :
           n \in 0..Len(parsedStyles)}

\* The declarations whose entries the returned string holds
EmittedIndices ==
    UNION {{ks[j] : j \in DOMAIN ks} :
           ks \in {x \in IndexSeqs : RenderedFrom(x) = cssEntries}}

\* The returned string has the entry of declaration k
Emits(k) == k \in EmittedIndices

EffectiveBreakpointStrategy ==
    IF options.breakpointStrategy = Undefined THEN "exact" ELSE options.breakpointStrategy

EffectiveThemeStrategy ==
    IF options.themeStrategy = Undefined THEN "strict" ELSE options.themeStrategy

Max(S) == CHOOSE x \in S : \A y \in S : y <= x

----------------------------------------------------------------------------
(* C1: for every parsed list and context, the entry emitted for a property  *)
(* is that of the last declaration for the property, in parse order, among *)
(* the matched declarations, whatever the conditions of the matched         *)
(* declarations are; a property without a matched declaration has no entry. *)
C1_LastMatchWins ==
    Resolved =>
        LET emitted == EmittedIndices IN
        \A k \in Indices :
            LET matched == {j \in Indices : PropertyOf(j) = PropertyOf(k) /\ IsMatched(j)}
            IN k \in emitted <=> matched # {} /\ k = Max(matched)

\* A conditioned declaration and a later base declaration of the same
\* property both match, and the later, less specific one is emitted.
C1_Witness ==
    /\ Resolved
    /\ \E k1, k2 \in Indices :
           /\ k1 < k2
           /\ PropertyOf(k1) = PropertyOf(k2)
           /\ IsMatched(k1) /\ IsMatched(k2)
           /\ ThemeOf(k1) # Undefined /\ BreakpointOf(k1) # Undefined
           /\ ~hasConditions(parsedStyles[k2])
           /\ Emits(k2) /\ ~Emits(k1)

(* C2: a base declaration matches in every context; the output has an      *)
(* entry for its property, carrying the base value unless a later matched  *)
(* declaration for the property overrides it.                               *)
C2_BaseAlwaysMatches ==
    Resolved =>
        LET emitted == EmittedIndices IN
        \A k \in Indices :
            parsedStyles[k].conditions = NoConditions =>
                /\ IsMatched(k)
                /\ \/ k \in emitted
                   \/ \E j \in Indices :
                          /\ j > k /\ PropertyOf(j) = PropertyOf(k)
                          /\ IsMatched(j) /\ j \in emitted

\* A base declaration is emitted in a context that requests a theme, a state,
\* a custom breakpoint and both non-default strategies, while a conditioned
\* declaration of the same property is not matched.
C2_Witness ==
    /\ Resolved
    /\ options.theme = "light" /\ options.state = "hover"
    /\ options.breakpoint = "3xl"
    /\ options.breakpointStrategy = "desktop-first"
    /\ options.themeStrategy = "fallback"
    /\ \E k, j \in Indices :
           /\ parsedStyles[k].conditions = NoConditions
           /\ Emits(k)
           /\ PropertyOf(j) = PropertyOf(k) /\ hasConditions(parsedStyles[j])
           /\ ~IsMatched(j)

(* C3: state matching is a subset check: a declaration whose conditions are *)
(* only states matches iff every state token of its segment is among the   *)
(* requested states (the `states` list and the single `state` of the       *)
(* context).                                                                *)
DeclaredStates(k) ==
    {input[k][j] : j \in 1..(Len(input[k]) - 2)} \cap KNOWN_STATES

RequestedStates ==
    {options.states[j] : j \in DOMAIN options.states}
        \cup (IF options.state = Undefined THEN {} ELSE {options.state})

C3_StateSubsetMatch ==
    Resolved /\ Len(parsedStyles) = Len(input) =>
        \A k \in Indices :
            ThemeOf(k) = Undefined /\ BreakpointOf(k) = Undefined =>
                (IsMatched(k) <=> DeclaredStates(k) \subseteq RequestedStates)

(* C4: with a known ordinal on both sides, a declaration is matched only   *)
(* if its breakpoint passes the strategy's rule (exact: equal; mobile-      *)
(* first: ordinal <= requested; desktop-first: ordinal >= requested), and   *)
(* a declaration whose only condition is the breakpoint is matched exactly *)
(* when it passes; an absent strategy is 'exact'.                           *)
Ordinal == ("xs" :> 0) @@ ("sm" :> 1) @@ ("md" :> 2) @@ ("lg" :> 3)
           @@ ("xl" :> 4) @@ ("2xl" :> 5)

Known(b) == b \in DOMAIN Ordinal

BreakpointRule(b, requested) ==
    CASE EffectiveBreakpointStrategy = "exact" -> b = requested
      [] EffectiveBreakpointStrategy = "mobile-first" -> Ordinal[b] <= Ordinal[requested]
      [] EffectiveBreakpointStrategy = "desktop-first" -> Ordinal[b] >= Ordinal[requested]

C4_KnownBreakpointStrategies ==
    Resolved =>
        \A k \in Indices :
            Known(BreakpointOf(k)) /\ Known(options.breakpoint) =>
                /\ IsMatched(k) => BreakpointRule(BreakpointOf(k), options.breakpoint)
                /\ ThemeOf(k) = Undefined /\ StateOf(k) = Undefined
                   /\ BreakpointRule(BreakpointOf(k), options.breakpoint)
                       => IsMatched(k)

\* Under mobile-first a declaration for md is matched at lg, and under
\* desktop-first one is matched at sm.
C4_Witness ==
    /\ Resolved
    /\ \E k \in Indices :
           /\ BreakpointOf(k) = "md" /\ IsMatched(k)
           /\ \/ options.breakpointStrategy = "mobile-first" /\ options.breakpoint = "lg"
              \/ options.breakpointStrategy = "desktop-first" /\ options.breakpoint = "sm"

(* C5: when the declaration's breakpoint or the requested one has no        *)
(* ordinal, a declaration is matched only if the two strings are equal, and *)
(* a declaration whose only condition is the breakpoint is matched exactly  *)
(* when they are equal, under every breakpointStrategy.                     *)
C5_CustomBreakpointsExact ==
    Resolved =>
        \A k \in Indices :
            /\ BreakpointOf(k) # Undefined /\ options.breakpoint # Undefined
            /\ ~Known(BreakpointOf(k)) \/ ~Known(options.breakpoint)
            =>
                /\ IsMatched(k) => BreakpointOf(k) = options.breakpoint
                /\ ThemeOf(k) = Undefined /\ StateOf(k) = Undefined
                   /\ BreakpointOf(k) = options.breakpoint
                       => IsMatched(k)

(* C6 (as stated): a declaration with a breakpoint never matches when no   *)
(* breakpoint is requested; the match of a declaration without a            *)
(* breakpoint is the same for every requested breakpoint and strategy.      *)
AlternativeBreakpoints == {Undefined, "sm", "md", "lg", "3xl", "4xl", "constructor"}
AlternativeStrategies == {Undefined, "exact", "mobile-first", "desktop-first"}

BreakpointAgnostic(k) ==
    \A b \in AlternativeBreakpoints, strategy \in AlternativeStrategies :
        IsMatched(k) <=>
            Matches(parsedStyles, parsedStyles[k],
                    [options EXCEPT !.breakpoint = b, !.breakpointStrategy = strategy])

C6_BreakpointAgnostic ==
    Resolved =>
        \A k \in Indices :
            /\ BreakpointOf(k) # Undefined /\ options.breakpoint = Undefined
                   => ~IsMatched(k)
            /\ BreakpointOf(k) = Undefined => BreakpointAgnostic(k)

(* C6 (amended): as above, the second half for every declaration other     *)
(* than a cross-theme fallback candidate (themeStrategy 'fallback', a theme *)
(* requested, and the declaration's theme different from it).               *)
CrossTheme(k) ==
    /\ EffectiveThemeStrategy = "fallback"
    /\ options.theme # Undefined
    /\ ThemeOf(k) # Undefined
    /\ ThemeOf(k) # options.theme

C6_BreakpointAgnosticButFallback ==
    Resolved =>
        \A k \in Indices :
            /\ BreakpointOf(k) # Undefined /\ options.breakpoint = Undefined
                   => ~IsMatched(k)
            /\ BreakpointOf(k) = Undefined /\ ~CrossTheme(k) => BreakpointAgnostic(k)

\* No breakpoint is requested under mobile-first: a declaration with a
\* breakpoint and no other condition is not matched, a themed declaration
\* without a breakpoint is.
C6_Witness ==
    /\ Resolved
    /\ options.breakpoint = Undefined
    /\ options.breakpointStrategy = "mobile-first"
    /\ \E k, j \in Indices :
           /\ BreakpointOf(k) # Undefined /\ ThemeOf(k) = Undefined /\ ~IsMatched(k)
           /\ BreakpointOf(j) = Undefined /\ ThemeOf(j) # Undefined /\ IsMatched(j)

(* C7: under 'strict' (also when themeStrategy is absent) a themed         *)
(* declaration is matched only if its theme equals the requested theme, and *)
(* one whose only condition is the theme is matched exactly then; the match *)
(* of a themeless declaration is the same for every requested theme.        *)
AlternativeThemes == {Undefined, "dark", "light", "midnight"}

C7_StrictTheme ==
    Resolved /\ EffectiveThemeStrategy = "strict" =>
        \A k \in Indices :
            /\ ThemeOf(k) # Undefined =>
                   /\ IsMatched(k) => ThemeOf(k) = options.theme
                   /\ BreakpointOf(k) = Undefined /\ StateOf(k) = Undefined
                      /\ ThemeOf(k) = options.theme
                          => IsMatched(k)
            /\ ThemeOf(k) = Undefined =>
                   \A t \in AlternativeThemes :
                       IsMatched(k) <=>
                           Matches(parsedStyles, parsedStyles[k],
                                   [options EXCEPT !.theme = t])

\* With themeStrategy absent and theme 'light' requested, a declaration for
\* light is matched and one for dark, of the same property, is not.
C7_Witness ==
    /\ Resolved
    /\ options.themeStrategy = Undefined
    /\ options.theme = "light"
    /\ \E k, j \in Indices :
           /\ ThemeOf(k) = "light" /\ IsMatched(k)
           /\ ThemeOf(j) = "dark" /\ PropertyOf(j) = PropertyOf(k)
           /\ BreakpointOf(j) = Undefined /\ StateOf(j) = Undefined
           /\ ~IsMatched(j)

(* C8: under 'fallback' with a theme T requested and neither breakpoint nor *)
(* state requested, a declaration for P of another theme and without        *)
(* breakpoint or state is matched iff the list has no declaration for P     *)
(* with theme T and without breakpoint or state; 'color:blue;               *)
(* dark:color:white' gives for theme light 'color: blue;' under strict and *)
(* 'color: white;' under fallback.                                          *)
ExampleBlueWhite == << <<"color", "blue">>, <<"dark", "color", "white">> >>

C9_ExactThemePriority ==
    Resolved /\ EffectiveThemeStrategy = "fallback" /\ options.theme # Undefined =>
        LET emitted == EmittedIndices IN
        \A k \in Indices :
            ThemeOf(k) = options.theme /\ IsMatched(k) =>
                \A j \in Indices :
                    /\ PropertyOf(j) = PropertyOf(k)
                    /\ ThemeOf(j) # Undefined /\ ThemeOf(j) # options.theme
                    => j \notin emitted

(* C10: when no theme is requested, a themed declaration is never matched, *)
(* under either theme strategy, and the returned string is the one the      *)
(* other theme strategy returns.                                            *)
C10_NoThemeRequested ==
    Resolved /\ options.theme = Undefined =>
        /\ \A k \in Indices : ThemeOf(k) # Undefined => ~IsMatched(k)
        /\ cssEntries = getStyle(parsedStyles, [options EXCEPT !.themeStrategy = "strict"])
        /\ cssEntries = getStyle(parsedStyles, [options EXCEPT !.themeStrategy = "fallback"])

\* Under fallback with no theme requested a themed declaration is left out
\* and the base declaration of the same property is emitted.
C10_Witness ==
    /\ Resolved
    /\ options.theme = Undefined
    /\ options.themeStrategy = "fallback"
    /\ \E k, j \in Indices :
           /\ ThemeOf(k) # Undefined /\ BreakpointOf(k) = Undefined
           /\ StateOf(k) = Undefined /\ ~IsMatched(k)
           /\ PropertyOf(j) = PropertyOf(k) /\ ~hasConditions(parsedStyles[j])
           /\ j < k /\ Emits(j)

(* C11: under 'fallback' with a theme T and a breakpoint requested, a       *)
(* declaration for P of another theme and without a breakpoint is not      *)
(* matched whenever the list has a themeless declaration for P with the    *)
(* same state condition, in every context, also one that requests a state. *)
C11_BasePreferredAtBreakpoint ==
    Resolved /\ EffectiveThemeStrategy = "fallback"
             /\ options.theme # Undefined /\ options.breakpoint # Undefined =>
        \A k \in Indices :
            /\ ThemeOf(k) # Undefined /\ ThemeOf(k) # options.theme
            /\ BreakpointOf(k) = Undefined
            /\ \E j \in Indices :
                   /\ PropertyOf(j) = PropertyOf(k)
                   /\ ThemeOf(j) = Undefined
                   /\ StateOf(j) = StateOf(k)
            => ~IsMatched(k)

(* C12: under 'fallback' with a theme T and a state requested, a            *)
(* declaration for P of another theme and without a state is not matched   *)
(* whenever the list has a themeless declaration for P without a state and *)
(* with the same breakpoint condition.                                      *)
C12_BasePreferredAtState ==
    Resolved /\ EffectiveThemeStrategy = "fallback"
             /\ options.theme # Undefined /\ options.state # Undefined =>
        \A k \in Indices :
            /\ ThemeOf(k) # Undefined /\ ThemeOf(k) # options.theme
            /\ StateOf(k) = Undefined
            /\ \E j \in Indices :
                   /\ PropertyOf(j) = PropertyOf(k)
                   /\ ThemeOf(j) = Undefined
                   /\ StateOf(j) = Undefined
                   /\ BreakpointOf(j) = BreakpointOf(k)
            => ~IsMatched(k)

\* Theme light and state hover are requested and no breakpoint: the list has
\* no declaration for light, a dark declaration without state is left out
\* and the base declaration of its property is emitted.
C12_Witness ==
    /\ Resolved
    /\ options.themeStrategy = "fallback"
    /\ options.theme = "light" /\ options.state = "hover"
    /\ options.breakpoint = Undefined
    /\ \A i \in Indices : ThemeOf(i) # "light"
    /\ \E k, j \in Indices :
           /\ ThemeOf(k) = "dark" /\ StateOf(k) = Undefined
           /\ BreakpointOf(k) = Undefined /\ ~IsMatched(k)
           /\ PropertyOf(j) = PropertyOf(k) /\ ~hasConditions(parsedStyles[j])
           /\ Emits(j)

(* C13: under 'fallback' with neither breakpoint nor state requested, when  *)
(* the requested theme has no declaration for P and declarations of        *)
(* several other themes for P are matched, the entry emitted for P is      *)
(* never that of a later one of them in parse order; 'color:red;           *)
(* dark:color:blue; midnight:color:purple; sunset:color:orange' gives      *)
(* 'color: blue;' for theme light.                                          *)
OtherThemeMatched(k) ==
    /\ ThemeOf(k) # Undefined /\ ThemeOf(k) # options.theme
    /\ IsMatched(k)

C13_FirstThemeInParseOrder ==
    Resolved /\ EffectiveThemeStrategy = "fallback" /\ options.theme # Undefined
             /\ options.breakpoint = Undefined /\ options.state = Undefined =>
        /\ \A k, j \in Indices :
               /\ k < j /\ PropertyOf(j) = PropertyOf(k)
               /\ OtherThemeMatched(k) /\ OtherThemeMatched(j)
               /\ \A i \in Indices :
                      PropertyOf(i) = PropertyOf(k) => ThemeOf(i) # options.theme
               => ~Emits(j)
        /\ input = ExampleFallbackOrder /\ options.theme = "light"
               => cssEntries = "color: blue;"

(* C14: getThemedStyle(parsed, options, preferDark) returns what getStyle  *)
(* returns for options with themeStrategy 'fallback', whatever strategy    *)
(* options asks for, and with theme options.theme when a theme name is     *)
(* given, else 'dark' if preferDark and 'light' if not.                     *)
ThemeGiven == themedOptions.theme # Undefined /\ themedOptions.theme # ""

ExpectedThemedOptions ==
    [theme |-> IF ThemeGiven THEN themedOptions.theme
               ELSE IF preferDark THEN "dark" ELSE "light",
     state |-> themedOptions.state,
     states |-> themedOptions.states,
     breakpoint |-> themedOptions.breakpoint,
     breakpointStrategy |-> themedOptions.breakpointStrategy,
     themeStrategy |-> "fallback"]

C14_ThemedIsFallbackGetStyle ==
    Resolved /\ api = "getThemedStyle" =>
        /\ options = ExpectedThemedOptions
        /\ cssEntries = getStyle(parsedStyles, ExpectedThemedOptions)

\* A themed call that asks for 'strict', theme midnight and preferDark: the
\* midnight declaration is emitted and the dark one of the same property is
\* not matched.
C14_Witness ==
    /\ Resolved /\ api = "getThemedStyle"
    /\ themedOptions.themeStrategy = "strict"
    /\ themedOptions.theme = "midnight"
    /\ preferDark
    /\ \E k, j \in Indices :
           /\ ThemeOf(k) = "midnight" /\ Emits(k)
           /\ ThemeOf(j) = "dark" /\ PropertyOf(j) = PropertyOf(k)
           /\ BreakpointOf(j) = BreakpointOf(k) /\ ~IsMatched(j)

(* C15: the returned string holds one entry 'property: value;' for each    *)
(* property with a matched declaration and no other entry, the entries are *)
(* joined by one space, and they stand in the order in which the           *)
(* properties were first matched in parse order, each with the value of    *)
(* the last matched declaration of its property.                            *)
MatchedFor(k) == {j \in Indices : PropertyOf(j) = PropertyOf(k) /\ IsMatched(j)}

RECURSIVE FirstMatchedOrder(_)
FirstMatchedOrder(k) ==
    IF k > Len(parsedStyles) THEN <<>>
    ELSE (IF IsMatched(k) /\ \A j \in MatchedFor(k) : j >= k
             THEN <<Max(MatchedFor(k))>>
             ELSE <<>>)
         \o FirstMatchedOrder(k + 1)

C15_Serialization ==
    Resolved => cssEntries = RenderedFrom(FirstMatchedOrder(1))

\* Three declarations are matched, the third overrides the first: the entry
\* of the third stands first, before the entry of the second.
C15_Witness ==
    /\ Resolved
    /\ Len(parsedStyles) = 3
    /\ \A k \in Indices : IsMatched(k)
    /\ PropertyOf(1) = PropertyOf(3) /\ PropertyOf(1) # PropertyOf(2)
    /\ cssEntries = EntryText(3) \o " " \o EntryText(2)

(* C16: getStyle returns a string for every parsed list and context; the   *)
(* string is empty exactly when no declaration is matched; for the parse   *)
(* of the empty string and the context {} it is empty.                      *)
EmptyContext ==
    [theme |-> Undefined, state |-> Undefined, states |-> <<>>,
     breakpoint |-> Undefined, breakpointStrategy |-> Undefined,
     themeStrategy |-> Undefined]

C16_TotalAndEmptyWhenNoMatch ==
    Resolved =>
        /\ cssEntries \in STRING
        /\ cssEntries = "" <=> \A k \in Indices : ~IsMatched(k)
        /\ input = <<>> /\ options = EmptyContext => cssEntries = ""

\* A list whose declarations are all conditioned resolves to the empty
\* string in the context {}.
C16_Witness ==
    /\ Resolved
    /\ options = EmptyContext
    /\ Len(parsedStyles) = 2
    /\ \A k \in Indices : ~IsMatched(k)
    /\ cssEntries = ""

----------------------------------------------------------------------------
(* Vocabulary of the parser's properties *)

Parsed == pc \in {"parsed", "resolved"}

Tokens(segment) == {segment[i] : i \in DOMAIN segment}

\* The declaration has the segment's last token as value, a hyphen-join of
\* tokens that end at the second-to-last as property, and conditions taken
\* from the segment's tokens.
StemsFrom(style, segment) ==
    LET n == Len(segment) IN
    /\ style.value = segment[n]
    /\ \E i \in 0..(n - 2) : style.property = JoinHyphen(segment, i, n - 1)
    /\ \A slot \in DOMAIN style.conditions :
           style.conditions[slot] \in Tokens(segment) \cup {Undefined}

EmptyString == {<<>>, << <<"">> >>}

\* One declaration per segment of `segments`, in order, and no other
OneDeclarationEach(segments) ==
    /\ Len(parsedStyles) = Len(segments)
    /\ \A k \in DOMAIN segments : StemsFrom(parsedStyles[k], segments[k])

(* C17 (as stated): an input that is not a string, or is empty, gives an   *)
(* empty list; otherwise the list holds one declaration, in source order,  *)
(* for each segment that is not empty and has at least two tokens, and no  *)
(* other declaration.                                                       *)
AtLeastTwoTokens(segment) == segment # <<"">> /\ Len(segment) >= 2

C17_OneDeclarationPerSegment ==
    Parsed =>
        /\ inputType # "string" \/ input \in EmptyString => parsedStyles = <<>>
        /\ inputType = "string" =>
               OneDeclarationEach(SelectSeq(input, AtLeastTwoTokens))

(* C17 (amended): as above, for each segment that has at least two tokens  *)
(* of which the last two are not empty.                                     *)
PropertyAndValue(segment) ==
    /\ Len(segment) >= 2
    /\ segment[Len(segment)] # ""
    /\ segment[Len(segment) - 1] # ""

C17_OneDeclarationPerCompleteSegment ==
    Parsed =>
        /\ inputType # "string" \/ input \in EmptyString => parsedStyles = <<>>
        /\ inputType = "string" =>
               OneDeclarationEach(SelectSeq(input, PropertyAndValue))

\* The segment 'color:' is skipped and the segment after it is parsed.
C17_Witness ==
    /\ Parsed
    /\ input = << <<"color", "">>, <<"md", "color", "red">> >>
    /\ Len(parsedStyles) = 1
    /\ parsedStyles[1].conditions.breakpoint = "md"

\* The segments that give a declaration, in order; SourceOf(k) is the segment
\* of the k-th declaration.
Sources == SelectSeq(input, PropertyAndValue)

Aligned == Parsed /\ inputType = "string" /\ Len(parsedStyles) = Len(Sources)

SourceOf(k) == Sources[k]

\* The tokens before the second-to-last are the conditions of declaration k
ConditionsBeforeProperty(k) ==
    LET s == SourceOf(k) IN
    /\ PropertyOf(k) = s[Len(s) - 1]
    /\ parsedStyles[k].conditions = Categorize(SubSeq(s, 1, Len(s) - 2), NoConditions)

NoKnownProperty(s) ==
    \A i \in 0..(Len(s) - 2) : JoinHyphen(s, i, Len(s) - 1) \notin KNOWN_CSS_PROPERTIES

(* C18: the last token of a segment is the value; when the second-to-last  *)
(* token is a known property, or when neither it nor a hyphen-joined run   *)
(* that ends at it is one, the second-to-last token is the property and    *)
(* every token before it is a condition.                                    *)
C18_PropertyValueBoundary ==
    Aligned =>
        \A k \in Indices :
            LET s == SourceOf(k) IN
            /\ ValueOf(k) = s[Len(s)]
            /\ s[Len(s) - 1] \in KNOWN_CSS_PROPERTIES => ConditionsBeforeProperty(k)
            /\ NoKnownProperty(s) => ConditionsBeforeProperty(k)

\* 'border:color:red' declares color under the theme 'border', and
\* 'text:align:last:center' declares the unknown property 'last'.
C18_Witness ==
    /\ Parsed
    /\ input = << <<"border", "color", "red">>, <<"text", "align", "last", "center">> >>
    /\ Len(parsedStyles) = 2
    /\ PropertyOf(1) = "color" /\ ThemeOf(1) = "border" /\ ValueOf(1) = "red"
    /\ PropertyOf(2) = "last" /\ ThemeOf(2) = "align" /\ ValueOf(2) = "center"

(* C19: every condition token gets one category, by the priority: a token *)
(* of the breakpoint vocabulary is a breakpoint; else one of the state     *)
(* vocabulary is a state; else dark or light is a theme; else a token of   *)
(* the shape digits+'xl' or made of the letters x, s, m, l is a            *)
(* breakpoint; every other token is a theme.  A token outside the state    *)
(* vocabulary is never a state.                                             *)
BreakpointVocabulary == {"xs", "sm", "md", "lg", "xl", "2xl"}

StateVocabulary ==
    {"hover", "active", "focus", "visited", "focus-visible", "focus-within",
     "disabled", "enabled", "checked"}

ClaimedCategory(token) ==
    IF token \in BreakpointVocabulary THEN "breakpoint"
    ELSE IF token \in StateVocabulary THEN "state"
    ELSE IF token \in {"dark", "light"} THEN "theme"
    ELSE IF MatchesBreakpointPattern(token) THEN "breakpoint"
    ELSE "theme"

\* The positions, before the property, of the tokens of a category
TokensOf(s, slot) == {i \in 1..(Len(s) - 2) : ClaimedCategory(s[i]) = slot}

RecognizedStates == StateVocabulary \cup {"current"}

C20_RecognizedStates ==
    /\ Aligned =>
           \A k \in Indices :
               LET s == SourceOf(k) IN
               Len(s) = 3 /\ s[1] \in RecognizedStates =>
                   /\ StateOf(k) = s[1]
                   /\ ThemeOf(k) = Undefined
                   /\ BreakpointOf(k) = Undefined
    /\ Resolved /\ inputType = "string"
           /\ input = << <<"current", "bg", "blue">> >>
           /\ options.state = "current" /\ options.theme = Undefined
           => cssEntries = "bg: blue;"

(* C21 (as stated): for every declaration and every permutation of its     *)
(* condition tokens, property and value kept last, parse gives the same    *)
(* property, value and conditions; 'dark:md:hover:color:red' and           *)
(* 'hover:md:dark:color:red' give the same single declaration.             *)
Reorderings(seq) ==
    {[i \in DOMAIN seq |-> seq[f[i]]] :
        f \in {g \in [DOMAIN seq -> DOMAIN seq] :
                  \A a, b \in DOMAIN seq : a # b => g[a] # g[b]}}

\* The number of tokens before the property of declaration k
ConditionCount(k) ==
    LET s == SourceOf(k) IN
    CHOOSE i \in 0..(Len(s) - 2) : JoinHyphen(s, i, Len(s) - 1) = PropertyOf(k)

ConditionTokens(k) == SubSeq(SourceOf(k), 1, ConditionCount(k))

PropertyAndValueTokens(k) ==
    SubSeq(SourceOf(k), ConditionCount(k) + 1, Len(SourceOf(k)))

PermutationInvariant(k) ==
    \A p \in Reorderings(ConditionTokens(k)) :
        parse(<<p \o PropertyAndValueTokens(k)>>) = <<parsedStyles[k]>>

ExampleAnyOrder ==
    /\ input = << <<"dark", "md", "hover", "color", "red">> >>
           => parsedStyles = parse(<< <<"hover", "md", "dark", "color", "red">> >>)
    /\ input = << <<"hover", "md", "dark", "color", "red">> >>
           => parsedStyles = parse(<< <<"dark", "md", "hover", "color", "red">> >>)

OneTokenPerCategory(k) ==
    \A a, b \in DOMAIN ConditionTokens(k) :
        a # b => ClaimedCategory(ConditionTokens(k)[a]) # ClaimedCategory(ConditionTokens(k)[b])

----------------------------------------------------------------------------
(* Vocabulary of the alias table's properties *)

\* The property most recently registered for the token since the last clear,
\* Undefined when there is none
RECURSIVE LatestRegistered(_, _)
LatestRegistered(token, calls) ==
    IF calls = <<>> THEN Undefined
    ELSE LET last == calls[Len(calls)] IN
         IF last.op = "clearCustomAliases" THEN Undefined
         ELSE IF token \in DOMAIN last.aliases THEN last.aliases[token]
         ELSE LatestRegistered(token, SubSeq(calls, 1, Len(calls) - 1))

\* Custom layer, else built-in layer, else kebab-case
ExpectedProperty(token, calls) ==
    IF LatestRegistered(token, calls) # Undefined THEN LatestRegistered(token, calls)
    ELSE IF token \in DOMAIN DEFAULT_ALIASES THEN DEFAULT_ALIASES[token]
    ELSE toKebabCase(token)

(* C22: after any sequence of registerAlias, registerAliases and           *)
(* clearCustomAliases calls, resolving a token returns the property most   *)
(* recently registered for it since the last clear, else its built-in      *)
(* mapping, else its kebab-case form.                                      *)
C22_AliasLookup ==
    [][resolution' # resolution =>
          resolution'.result = ExpectedProperty(resolution'.property, aliasCalls)]_vars

(* C23: for every declaration parse emits, the property field is the       *)
(* resolution of the raw property token under the alias table at the time *)
(* of the call, and getStyle emits that name: 'bg:red' gives 'background', *)
(* and 'background-color' after registerAlias('bg','background-color').    *)
RawProperty(segment) == segment[Len(segment) - 1]

C23_ParseStoresCanonicalProperty ==
    [][/\ pc = "start" /\ pc' = "parsed" =>
           /\ Len(parsedStyles') = Len(input')
           /\ \A k \in DOMAIN parsedStyles' :
                  parsedStyles'[k].property =
                      ExpectedProperty(RawProperty(input'[k]), aliasCalls)
       /\ pc = "parsed" /\ pc' = "resolved" /\ input = << <<"bg", "red">> >> =>
           cssEntries' = ExpectedProperty("bg", aliasCalls) \o ": red;"]_vars

(* C24: a registerAlias, registerAliases or clearCustomAliases call leaves *)
(* the built-in table as it was at the start, and leaves every parsed list *)
(* and what getStyle returns for it, in any context, as before the call.   *)
C24_RegistrationFrame ==
    [][aliasCalls' # aliasCalls =>
          /\ defaultAliases' = DEFAULT_ALIASES
          /\ parsedStyles' = parsedStyles
          /\ \A o \in AliasOptions :
                 getStyle(parsedStyles', o) = getStyle(parsedStyles, o)]_vars

\* 'bg' was registered and the custom layer cleared again around a parse of
\* 'bg:red' and its resolution; the built-in alias of 'bg' is unchanged.
C24_Witness ==
    /\ Resolved
    /\ input = << <<"bg", "red">> >>
    /\ cssEntries # ""
    /\ Len(aliasCalls) >= 2
    /\ aliasCalls[1].op = "registerAlias" /\ "bg" \in DOMAIN aliasCalls[1].aliases
    /\ aliasCalls[Len(aliasCalls)].op = "clearCustomAliases"
    /\ customAliases = NoAliases
    /\ defaultAliases["bg"] = "background"

----------------------------------------------------------------------------
(* The merge utility.  An entry of a string is a piece between semicolons  *)
(* that has a colon and something before its last colon; its key is what   *)
(* stands before that colon and its value what stands after it.            *)

Elements(seq) == {seq[k] : k \in DOMAIN seq}

Cuts(piece) ==
    {cut \in DOMAIN piece :
        /\ piece[cut] = Colon
        /\ Colon \notin Elements(SubSeq(piece, cut + 1, Len(piece)))}

HasEntry(piece) ==
    \E cut \in Cuts(trim(piece)) : trim(SubSeq(trim(piece), 1, cut - 1)) # <<>>

EntryOf(piece) ==
    LET text == trim(piece)
        cut == CHOOSE c \in Cuts(text) : TRUE
    IN  <<trim(SubSeq(text, 1, cut - 1)), trim(SubSeq(text, cut + 1, Len(text)))>>

\* The entries of a string, in the order in which they stand
Supplied(text) ==
    LET pieces == SelectSeq(split(text, Semicolon), HasEntry)
    IN  [k \in DOMAIN pieces |-> EntryOf(pieces[k])]

SuppliedBy(i) == Supplied(normalizeAdapt(adapts[i]))

Contains(i, key) == \E entry \in Elements(SuppliedBy(i)) : entry[1] = key

SuppliedKeys == {entry[1] : entry \in UNION {Elements(SuppliedBy(i)) : i \in DOMAIN adapts}}

MergedEntries == Supplied(merged)

Leftmost(key) ==
    CHOOSE i \in DOMAIN adapts :
        Contains(i, key) /\ \A j \in 1..(i - 1) : ~Contains(j, key)

(* C25: for every key some argument contains, the result has the key, and  *)
(* the value the result keeps for it is one the leftmost argument that     *)
(* contains the key supplies (the last one it supplies, when the arguments *)
(* are merged); no argument to its right overrides it.                     *)
C25_LeftmostWins ==
    \A key \in SuppliedKeys :
        LET own == SelectSeq(SuppliedBy(Leftmost(key)), LAMBDA entry : entry[1] = key)
        IN  /\ \E entry \in Elements(MergedEntries) : entry[1] = key
            /\ \A entry \in Elements(MergedEntries) :
                   entry[1] = key => entry \in Elements(own)
            /\ Len(adapts) >= 2 =>
                   \A entry \in Elements(MergedEntries) :
                       entry[1] = key => entry = own[Len(own)]

\* Three arguments: nothing, then a string and an object that both supply
\* 'bg' and 'color'; the string's values are the ones kept.
C25_Witness ==
    /\ Len(adapts) = 3
    /\ adapts[1].type = "null"
    /\ adapts[2].type = "string"
    /\ adapts[3].type = "object"
    /\ merged = <<"bg", Colon, "red", Semicolon, "color", Colon, "white">>

ExampleDisambiguation ==
    <<StringAdapt(<<"hover", Colon, "bg", Colon, "white">>),
      StringAdapt(<<"hover", Colon, "dark", Colon, "bg", Colon, "black">>)>>

WellFormed(text) ==
    /\ text # <<>> => \A piece \in Elements(split(text, Semicolon)) : HasEntry(piece)
    /\ \A k \in DOMAIN text :
           text[k] = Semicolon => k < Len(text) /\ text[k + 1] # Space
    /\ \A j, k \in DOMAIN Supplied(text) :
           Supplied(text)[j][1] = Supplied(text)[k][1] => j = k

(* C27, as stated: for every list of arguments, one or several, the result *)
(* is 'key:value' pairs joined by ';', without a trailing semicolon,       *)
(* without a space after a separator, each key at most once.               *)
C27_OutputFormat == WellFormed(merged)

(* C27: for every list of two or more arguments the result is 'key:value'  *)
(* pairs joined by ';', without a trailing semicolon, without a space      *)
(* after a separator, each key at most once.                               *)
C27_OutputFormatOfMergedArguments == Len(adapts) >= 2 => WellFormed(merged)

\* A string with a repeated key and a trailing ';' merged with an array
\* whose normal form has '; ' between its items and ': ' in one of them
C27_Witness ==
    /\ Len(adapts) = 2
    /\ adapts[1].type = "string" /\ adapts[1].text[Len(adapts[1].text)] = Semicolon
    /\ adapts[2].type = "array"
    /\ merged = <<"color", Colon, "blue", Semicolon, "hover", Colon, "bg", Colon,
                  "red", Semicolon, "bg", Colon, "blue">>

----------------------------------------------------------------------------
(* Properties written as several tokens *)

\* The starts of the runs of two or more tokens that end at the
\* second-to-last token and whose hyphen-join is a known property, counted
\* as the number of tokens before the run
KnownRunStarts(s) ==
    {i \in 0..(Len(s) - 3) : JoinHyphen(s, i, Len(s) - 1) \in KNOWN_CSS_PROPERTIES}

ClosestToStart(starts) == CHOOSE i \in starts : \A j \in starts : i <= j

(* C28: when the second-to-last token of a segment is not a known property *)
(* and a run of tokens that ends at it joins to one, the property is the   *)
(* hyphen-join of such a run, of the one that starts closest to the start  *)
(* of the segment when there are several, and the tokens before the run    *)
(* are the conditions.                                                     *)
C28_MultiTokenProperty ==
    Aligned =>
        \A k \in Indices :
            LET s == SourceOf(k)
                starts == KnownRunStarts(s)
            IN  s[Len(s) - 1] \notin KNOWN_CSS_PROPERTIES /\ starts # {} =>
                    LET first == ClosestToStart(starts) IN
                    /\ PropertyOf(k) = JoinHyphen(s, first, Len(s) - 1)
                    /\ parsedStyles[k].conditions =
                           Categorize(SubSeq(s, 1, first), NoConditions)

\* 'md:grid:template:columns:1fr' declares grid-template-columns at md, and
\* 'font:family:Arial' declares font-family.
C28_Witness ==
    /\ Parsed
    /\ input = << <<"md", "grid", "template", "columns", "1fr">>,
                  <<"font", "family", "Arial">> >>
    /\ Len(parsedStyles) = 2
    /\ PropertyOf(1) = "grid-template-columns" /\ BreakpointOf(1) = "md"
    /\ PropertyOf(2) = "font-family" /\ parsedStyles[2].conditions = NoConditions

----------------------------------------------------------------------------
(* Relations between the strategies *)

\* The declarations matched in a context
MatchedUnder(opts) ==
    {k \in Indices : Matches(parsedStyles, parsedStyles[k], opts)}

WithBreakpointStrategy(strategy) == [options EXCEPT !.breakpointStrategy = strategy]

MatchedByTheCall == {k \in Indices : IsMatched(k)}

(* C29: when the requested breakpoint has an ordinal, the declarations     *)
(* matched under 'exact' are those matched both under 'mobile-first' and   *)
(* under 'desktop-first', the rest of the context being the same; a call   *)
(* with 'exact' matches exactly these.                                     *)
C29_ExactIsIntersection ==
    Resolved /\ options.breakpoint \in DOMAIN BREAKPOINT_ORDER =>
        LET both == MatchedUnder(WithBreakpointStrategy("mobile-first"))
                        \cap MatchedUnder(WithBreakpointStrategy("desktop-first"))
        IN  /\ MatchedUnder(WithBreakpointStrategy("exact")) = both
            /\ BreakpointStrategyOf(options) = "exact" => MatchedByTheCall = both

\* At md, with declarations for sm and for md: mobile-first matches both,
\* desktop-first and exact the one for md.
C29_Witness ==
    /\ Resolved
    /\ options.breakpoint = "md"
    /\ BreakpointStrategyOf(options) = "exact"
    /\ Len(parsedStyles) = 2
    /\ BreakpointOf(1) = "sm" /\ BreakpointOf(2) = "md"
    /\ MatchedUnder(WithBreakpointStrategy("mobile-first")) = {1, 2}
    /\ MatchedUnder(WithBreakpointStrategy("desktop-first")) = {2}
    /\ MatchedByTheCall = {2}

WithThemeStrategy(strategy) == [options EXCEPT !.themeStrategy = strategy]

(* C30: every declaration matched under 'strict' is matched under          *)
(* 'fallback' in the same context otherwise; what a strict call matches is *)
(* matched under fallback, and a fallback call matches all that strict     *)
(* matches.                                                                *)
C30_StrictWithinFallback ==
    Resolved =>
        /\ MatchedUnder(WithThemeStrategy("strict"))
               \subseteq MatchedUnder(WithThemeStrategy("fallback"))
        /\ ThemeStrategyOf(options) = "strict" =>
               MatchedByTheCall \subseteq MatchedUnder(WithThemeStrategy("fallback"))
        /\ ThemeStrategyOf(options) = "fallback" =>
               MatchedUnder(WithThemeStrategy("strict")) \subseteq MatchedByTheCall

\* Theme light is requested for a light declaration and a dark declaration
\* of another property: strict matches the first, fallback both.
C30_Witness ==
    /\ Resolved
    /\ options.theme = "light"
    /\ ThemeStrategyOf(options) = "fallback"
    /\ Len(parsedStyles) = 2
    /\ ThemeOf(1) = "light" /\ ThemeOf(2) = "dark"
    /\ MatchedUnder(WithThemeStrategy("strict")) = {1}
    /\ MatchedByTheCall = {1, 2}

====
